---- MODULE Spec2Model ----
\* A model of cbconvert: the conversion pipeline (Convert, convertArchive,
\* convertDocument, convertDirectory, imageConvert, archiveSave), its two
\* callers (the command-line program and the GUI), and the ZIP mutator
\* (archiveSetComment, archiveFileAdd, archiveFileRemove).
EXTENDS Integers, Sequences, FiniteSets, TLC

\* ------------------------------------------------------------------ bounds

\* Longest input: members of an archive, files of a directory, pages of a document.
MaxEntries == 3
\* Most inputs handed to one Converter in one run.
MaxFiles == 2
\* Largest runtime.NumCPU() considered.
MaxCPU == 1
\* Most I/O, decode or encode failures injected in one run.
MaxFaults == 1

\* ----------------------------------------------------------------- strings
\* Paths are strings; a character is a string of length 1.

At(s, i) == SubSeq(s, i, i)

Drop(s, n) == SubSeq(s, n + 1, Len(s))

Take(s, n) == SubSeq(s, 1, n)

HasPrefix(s, p) == Len(s) >= Len(p) /\ Take(s, Len(p)) = p

HasSuffix(s, p) == Len(s) >= Len(p) /\ Drop(s, Len(s) - Len(p)) = p

TrimSuffix(s, p) == IF HasSuffix(s, p) THEN Take(s, Len(s) - Len(p)) ELSE s

UpperChars == "ABCDEFGHIJKLMNOPQRSTUVWXYZ"

LowerChars == "abcdefghijklmnopqrstuvwxyz"

LowerChar(c) ==
  IF \E i \in 1..Len(UpperChars) : At(UpperChars, i) = c
  THEN At(LowerChars, CHOOSE i \in 1..Len(UpperChars) : At(UpperChars, i) = c)
  ELSE c

RECURSIVE ToLower(_)
ToLower(s) == IF s = "" THEN "" ELSE LowerChar(Head(s)) \o ToLower(Tail(s))

\* Index of the last "/" of s, 0 when there is none.
RECURSIVE LastSlash(_, _)
LastSlash(s, i) ==
  IF i = 0 THEN 0 ELSE IF At(s, i) = "/" THEN i ELSE LastSlash(s, i - 1)

RECURSIVE StripTrailingSlashes(_)
StripTrailingSlashes(s) ==
  IF Len(s) > 0 /\ At(s, Len(s)) = "/"
  THEN StripTrailingSlashes(Take(s, Len(s) - 1))
  ELSE s

\* filepath.Base: the last element of the path.
Base(p) ==
  IF p = "" THEN "."
  ELSE LET q == StripTrailingSlashes(p)
       IN IF q = "" THEN "/" ELSE Drop(q, LastSlash(q, Len(q)))

\* filepath.Ext: the suffix beginning at the final dot of the last element.
RECURSIVE ExtFrom(_, _)
ExtFrom(p, i) ==
  IF i = 0 \/ At(p, i) = "/" THEN ""
  ELSE IF At(p, i) = "." THEN Drop(p, i - 1)
  ELSE ExtFrom(p, i - 1)

Ext(p) == ExtFrom(p, Len(p))

baseNoExt(filename) == TrimSuffix(Base(filename), Ext(filename))

\* filepath.Join(c.Workdir, name) names a file of the scratch directory: the
\* model keeps the directory and the name apart.
isImage(f) ==
  ToLower(Ext(f)) \in {".jpg", ".jpeg", ".png", ".gif", ".bmp", ".tiff", ".tif",
                       ".webp", ".avif", ".jxl"}

isNonImage(f) == ToLower(Ext(f)) \in {".nfo", ".xml", ".txt"}

Contains(s, sub) ==
  \E i \in 0..(Len(s) - Len(sub)) : SubSeq(s, i + 1, i + Len(sub)) = sub

imagesFromSlice(files) == SelectSeq(files, isImage)

\* ------------------------------------------------------------ cover name

\* The bytes that occur in names, in ascending byte order.
ByteOrder == " ./0123456789ABCDEFGHIJKLMNOPQRSTUVWXYZ_abcdefghijklmnopqrstuvwxyz"

Ord(c) == CHOOSE i \in 1..Len(ByteOrder) : At(ByteOrder, i) = c

isdigit(c) == c \in {"0", "1", "2", "3", "4", "5", "6", "7", "8", "9"}

\* Byte-wise string order (Go's < on strings).
RECURSIVE StrLess(_, _)
StrLess(a, b) ==
  IF b = "" THEN FALSE
  ELSE IF a = "" THEN TRUE
  ELSE IF Head(a) # Head(b) THEN Ord(Head(a)) < Ord(Head(b))
  ELSE StrLess(Tail(a), Tail(b))

\* First index >= i (1-based) of s whose character is not "0"; Len(s)+1 at the end.
RECURSIVE EatZeros(_, _)
EatZeros(s, i) ==
  IF i <= Len(s) /\ At(s, i) = "0" THEN EatZeros(s, i + 1) ELSE i

RECURSIVE EatDigits(_, _)
EatDigits(s, i) ==
  IF i <= Len(s) /\ isdigit(At(s, i)) THEN EatDigits(s, i + 1) ELSE i

\* sortorder.NaturalLess: chunks of digits compare by value, digits sort
\* before other characters, the rest compares byte-wise.
RECURSIVE NaturalLessFrom(_, _, _, _)
NaturalLessFrom(s1, s2, i1, i2) ==
  IF ~(i1 <= Len(s1) /\ i2 <= Len(s2)) THEN Len(s1) < Len(s2)
  ELSE LET c1 == At(s1, i1)
           c2 == At(s2, i2)
           dig1 == isdigit(c1)
           dig2 == isdigit(c2)
       IN IF dig1 # dig2 THEN dig1
          ELSE IF ~dig1
          THEN IF c1 # c2 THEN Ord(c1) < Ord(c2)
               ELSE NaturalLessFrom(s1, s2, i1 + 1, i2 + 1)
          ELSE LET nz1 == EatZeros(s1, i1)
                   nz2 == EatZeros(s2, i2)
                   e1 == EatDigits(s1, nz1)
                   e2 == EatDigits(s2, nz2)
                   nr1 == SubSeq(s1, nz1, e1 - 1)
                   nr2 == SubSeq(s2, nz2, e2 - 1)
               IN IF (e1 - nz1) # (e2 - nz2) THEN (e1 - nz1) < (e2 - nz2)
                  ELSE IF nr1 # nr2 THEN StrLess(nr1, nr2)
                  ELSE IF nz1 # nz2 THEN nz1 < nz2
                  ELSE NaturalLessFrom(s1, s2, e1, e2)

\* The order without its treatment of digits: plain byte order.
NaturalLessPlain(s1, s2) == StrLess(s1, s2)

NaturalLess(s1, s2) == NaturalLessFrom(s1, s2, 1, 1)

Range(q) == {q[i] : i \in 1..Len(q)}

\* lower[0] after sort.Sort(sortorder.Natural(lower)).
NaturalFirst(lower) ==
  CHOOSE m \in Range(lower) : \A o \in Range(lower) : ~NaturalLess(o, m)

Separator == "/"

RECURSIVE ToSlash(_)
ToSlash(p) ==
  IF p = "" THEN ""
  ELSE (IF Head(p) = Separator THEN "/" ELSE Head(p)) \o ToSlash(Tail(p))

\* The test without its prefix half.
IsCoverLikeSuffixOnly(img) ==
  LET low == ToLower(img)
      ext == baseNoExt(low)
  IN HasSuffix(ext, "cover") \/ HasSuffix(ext, "front")

\* The test coverName applies to each name in its first loop.
IsCoverLike(img) ==
  LET low == ToLower(img)
      ext == baseNoExt(low)
  IN \/ HasPrefix(low, "cover") \/ HasPrefix(low, "front")
     \/ HasSuffix(ext, "cover") \/ HasSuffix(ext, "front")

\* coverName returns the filename that is the most likely to be the cover.
coverName(images) ==
  IF Len(images) = 0 THEN ""
  ELSE IF \E i \in 1..Len(images) : IsCoverLike(images[i])
  THEN ToSlash(images[CHOOSE i \in 1..Len(images) :
                        /\ IsCoverLike(images[i])
                        /\ \A j \in 1..(i - 1) : ~IsCoverLike(images[j])])
  ELSE LET lower == [i \in 1..Len(images) |-> ToLower(images[i])]
           cover == NaturalFirst(lower)
       IN ToSlash(images[CHOOSE i \in 1..Len(images) :
                           /\ lower[i] = cover
                           /\ \A j \in 1..(i - 1) : lower[j] # cover])

\* ------------------------------------------------------------------ inputs

\* The member names inputs are built from, in walk order: two images that
\* differ only in extension, two that differ only in directory, one non-image.
Pool == <<"a/001.jpg", "a/001.png", "b/001.jpg", "notes.txt">>

\* The members whose decoded image is grayscale.
GrayMembers == {"a/001.png"}

RECURSIVE SeqOfIndices(_, _)
SeqOfIndices(S, from) ==
  IF from > Len(Pool) THEN <<>>
  ELSE (IF from \in S THEN <<Pool[from]>> ELSE <<>>) \o SeqOfIndices(S, from + 1)

MemberLists ==
  {SeqOfIndices(S, 1) : S \in {T \in SUBSET (1..Len(Pool)) : Cardinality(T) <= MaxEntries}}

\* An input is an archive or a directory with its members, or a document with
\* its pages (a page has no name).
Inputs ==
  [kind : {"archive", "directory"}, members : MemberLists]
    \cup {[kind |-> "document", members |-> [i \in 1..n |-> ""]] : n \in 0..MaxEntries}

NoInput == [kind |-> "none", members |-> <<>>]

\* The option profiles of a run: the defaults, and each policy flag alone.
DefaultOpts ==
  [Format |-> "jpeg", NoConvert |-> FALSE, NoCover |-> FALSE, NoRGB |-> FALSE,
   NoNonImage |-> FALSE]

OptProfiles ==
  {DefaultOpts,
   [DefaultOpts EXCEPT !.Format = "png"],
   [DefaultOpts EXCEPT !.NoConvert = TRUE],
   [DefaultOpts EXCEPT !.NoCover = TRUE],
   [DefaultOpts EXCEPT !.NoRGB = TRUE],
   [DefaultOpts EXCEPT !.NoNonImage = TRUE]}

Sessions == 1..MaxFiles

\* ------------------------------------------------------------------- state

VARIABLES
  caller,       \* "cli" (cmd/cbconvert) or "gui" (cmd/cbconvert-gui)
  opts,         \* c.Opts
  numCPU,       \* runtime.NumCPU()
  Nfiles,       \* c.Nfiles: the number of inputs of the run
  faults,       \* failures injected so far
  callerPc,     \* the caller: "loop", "convert", "returned", "done", "exited"
  CurrFile,     \* c.CurrFile: the number of Convert calls so far
  input,        \* the input of the running Convert
  contents,     \* the sequence the producer loop ranges over
  cover,        \* cover of convertArchive
  pc,           \* the producer: "idle", "loop", "go", "wait", "save", "pack"
  cur,          \* the producer's loop index (0-based)
  Workdir,      \* c.Workdir: 0 is "", s is the directory MkdirTemp made for call s
  Ncontents,    \* c.Ncontents
  CurrContent,  \* c.CurrContent
  dirs,         \* the scratch directories on disk
  scratch,      \* the files in them: records [dir, name, content]
  outputs,      \* per call, the output archive: "none", "partial", "complete"
  tasks,        \* the imageConvert tasks started and not yet returned
  egErr,        \* per call, the first error its errgroup recorded
  cancelled,    \* per call, whether Cancel was requested on its context
  ret,          \* per call, what Convert returned ("none" while it has not)
  late          \* per call, the entries dispatched after its context was cancelled

convVars ==
  <<caller, opts, numCPU, Nfiles, faults, callerPc, CurrFile, input, contents, cover,
    pc, cur, Workdir, Ncontents, CurrContent, dirs, scratch, outputs, tasks, egErr,
    cancelled, ret, late>>

VARIABLES
  zipFile,      \* the archive file on disk: [members, comment, complete]
  zipBefore,    \* its content when the mutator was called
  tmpFile,      \* the temporary archive: "absent" or [members, comment]
  mOp,          \* the running call: [op, arg], op "none" before it
  mPc,          \* its position: "idle", "copy", "new", "close", "write", "done"
  mIdx,         \* the members of the original handled so far
  mRet,         \* what it returned: "none", "nil", "err"
  mFaults       \* failures injected so far

mutVars == <<zipFile, zipBefore, tmpFile, mOp, mPc, mIdx, mRet, mFaults>>

VARIABLES
  fnOp,         \* the function called: "none", "coverName", "Files"
  fnIn,         \* its argument
  fnOut,        \* what it returned, NotCalled before the first call
  fnCalls       \* the number of calls made

funVars == <<fnOp, fnIn, fnOut, fnCalls>>

vars == <<convVars, mutVars, funVars>>

\* The state after cbconvert.New(opts), before the first Convert.
ConvInit ==
  /\ caller \in {"cli", "gui"}
  /\ numCPU \in 1..MaxCPU
  /\ faults = 0
  /\ callerPc = "loop"
  /\ CurrFile = 0
  /\ input = NoInput
  /\ contents = <<>>
  /\ cover = ""
  /\ pc = "idle"
  /\ cur = 0
  /\ Workdir = 0
  /\ Ncontents = 0
  /\ CurrContent = 0
  /\ dirs = {}
  /\ scratch = {}
  /\ outputs = [s \in Sessions |-> "none"]
  /\ tasks = {}
  /\ egErr = [s \in Sessions |-> "none"]
  /\ cancelled = [s \in Sessions |-> FALSE]
  /\ ret = [s \in Sessions |-> "none"]
  /\ late = [s \in Sessions |-> 0]

NoArchive == [members |-> <<>>, comment |-> "", complete |-> TRUE]

\* No mutator call is made.
MutIdle ==
  /\ zipFile = NoArchive
  /\ zipBefore = NoArchive
  /\ tmpFile = "absent"
  /\ mOp = [op |-> "none", arg |-> ""]
  /\ mPc = "idle"
  /\ mIdx = 0
  /\ mRet = "none"
  /\ mFaults = 0

NotCalled == [called |-> FALSE]

\* No call of coverName or Files is made.
FunIdle ==
  /\ fnOp = "none"
  /\ fnIn = <<>>
  /\ fnOut = NotCalled
  /\ fnCalls = 0

\* ---------------------------------------------------------------- helpers

\* The context handed to a convert call is cancelled by Cancel, and the
\* errgroup's context derived from it also by the first task error.
CtxErr(s) == cancelled[s] \/ egErr[s] # "none"

\* errors.Is(err, context.Canceled) of what Convert returned.
IsCanceled(r) == r \in {"ctx", "taskctx"}

IsError(r) == r \notin {"none", "nil"}

\* imagesFromPath: the image files a walk of the directory finds.
imagesFromPath(members) == SelectSeq(members, isImage)

isGrayScale(path) == path \in GrayMembers

FilesIn(d) == {f \in scratch : f.dir = d}

\* os.Create of a name in a directory followed by writing the content: any
\* file of that name is replaced.
WriteFile(files, d, name, content) ==
  {f \in files : ~(f.dir = d /\ f.name = name)}
    \cup {[dir |-> d, name |-> name, content |-> content]}

\* os.RemoveAll(dir); RemoveAll("") removes nothing.
RemoveAllDirs(d) == dirs \ {d}

RemoveAllFiles(d) == {f \in scratch : f.dir # d}

FormatExt == IF opts.Format = "jpeg" THEN "jpg" ELSE opts.Format

\* fmt.Sprintf("%03d", index)
Pad3(index) ==
  IF index < 10 THEN "00" \o ToString(index)
  ELSE IF index < 100 THEN "0" \o ToString(index)
  ELSE ToString(index)

\* The file name imageConvert writes in the scratch directory.
imageConvertName(index, pathName) ==
  IF pathName # "" THEN baseNoExt(pathName) \o "." \o FormatExt
  ELSE Pad3(index) \o "." \o FormatExt

\* What the producer loop does with one entry, before any failure:
\* "convert" (decode, then eg.Go), "copy" (the raw bytes), "copyrest" (what is
\* left of the opened file after the decoder read it), "skip".
archivePolicy(pathName) ==
  IF isImage(pathName)
  THEN IF opts.NoConvert THEN "copy"
       ELSE IF cover = pathName /\ opts.NoCover THEN "copy"
       ELSE IF opts.NoRGB /\ ~isGrayScale(pathName) THEN "copy"
       ELSE "convert"
  ELSE IF Ext(pathName) = ".DS_Store" \/ Contains(pathName, "__MACOSX") THEN "skip"
  ELSE IF ~opts.NoNonImage THEN "copy"
  ELSE "skip"

directoryPolicy(img) ==
  IF isNonImage(img) /\ ~opts.NoNonImage THEN "copy"
  ELSE IF isImage(img)
  THEN IF opts.NoConvert THEN "copy"
       ELSE IF opts.NoRGB /\ ~isGrayScale(img) THEN "copyrest"
       ELSE "convert"
  ELSE "skip"

Policy(kind, pathName) ==
  IF kind = "archive" THEN archivePolicy(pathName)
  ELSE IF kind = "directory" THEN directoryPolicy(pathName)
  ELSE "convert"

\* Whether the loop decodes the entry (and so can fail to).
Decodes(kind, pathName) ==
  /\ kind # "document"
  /\ isImage(pathName)
  /\ ~opts.NoConvert
  /\ ~(kind = "archive" /\ cover = pathName /\ opts.NoCover)

TasksOf(s) == {t \in tasks : t.sess = s}

\* The pool without its limit.
PoolHasSlotNoLimit(s) == TRUE

\* A pool whose limit is two below the one set: it has no slot on one CPU.
PoolHasSlotTwoBelow(s) == Cardinality(TasksOf(s)) < numCPU - 1

\* eg.SetLimit(runtime.NumCPU() + 1): Go blocks while that many tasks are active.
PoolHasSlot(s) == Cardinality(TasksOf(s)) < numCPU + 1

\* errgroup: the first task error is kept and cancels the group's context.
RecordErr(s, e) == IF egErr[s] = "none" THEN [egErr EXCEPT ![s] = e] ELSE egErr

CanFault == faults < MaxFaults

\* A convert function (or archiveSave) returns r to Convert, which returns it
\* to the caller.
Return(s, r) ==
  /\ ret' = [ret EXCEPT ![s] = r]
  /\ pc' = "idle"
  /\ callerPc' = "returned"

\* ---------------------------------------------------------------- Convert

\* Convert is called on the next input: c.CurrFile++, then the head of
\* convertArchive, convertDocument or convertDirectory up to its loop:
\* MkdirTemp, the listing (which can fail), the counters, the cover, the errgroup.
ConvertStart(inp) ==
  /\ callerPc = "loop"
  /\ CurrFile < Nfiles
  /\ LET s == CurrFile + 1
         list == IF inp.kind = "directory" THEN imagesFromPath(inp.members)
                 ELSE inp.members
         images == imagesFromSlice(list)
     IN /\ CurrFile' = s
        /\ Workdir' = s
        /\ dirs' = dirs \cup {s}
        /\ \/ /\ CanFault
              /\ faults' = faults + 1
              /\ Return(s, "read")
              /\ UNCHANGED <<input, contents, cover, cur, Ncontents, CurrContent>>
           \/ /\ input' = inp
              /\ contents' = list
              /\ Ncontents' = IF inp.kind = "document" THEN Len(list) ELSE Len(images)
              /\ CurrContent' = 0
              /\ cover' = IF inp.kind = "archive" THEN coverName(images) ELSE cover
              /\ cur' = 0
              /\ pc' = "loop"
              /\ callerPc' = "convert"
              /\ UNCHANGED <<faults, ret>>
  /\ UNCHANGED <<mutVars, funVars, caller, opts, numCPU, Nfiles, scratch, outputs, tasks, egErr, cancelled, late>>

\* The loop without its context check.
CtxCheckNever(s) == FALSE

\* if ctx.Err() != nil, the first statement of the loop body.
CtxCheck(s) == CtxErr(s)

\* The loop body is entered and returns at its context check. The loop of
\* convertArchive enters its body before it asks for the next entry; the loops
\* of convertDocument and convertDirectory test their loop condition first.
LoopCancelled ==
  /\ input.kind # "archive" => cur < Len(contents)
  /\ CtxCheck(CurrFile)

\* The loop is left: no entry remains.
LoopEnds ==
  /\ cur = Len(contents)
  /\ ~LoopCancelled

\* One iteration of the producer loop up to eg.Go: the context check, reading
\* the entry, the policy branches with their copies, the decode.
Iterate ==
  /\ pc = "loop"
  /\ LET s == CurrFile
         pathName == contents[cur + 1]
         policy == Policy(input.kind, pathName)
     IN \/ /\ LoopCancelled
           /\ Return(s, "ctx")
           /\ UNCHANGED <<faults, cur, dirs, scratch>>
        \/ /\ LoopEnds
           /\ pc' = "wait"
           /\ UNCHANGED <<faults, callerPc, ret, cur, dirs, scratch>>
        \/ /\ ~LoopCancelled /\ ~LoopEnds
           /\ \/ /\ CanFault
                 /\ faults' = faults + 1
                 /\ \E r \in {"read"}
                          \cup (IF Decodes(input.kind, pathName) THEN {"decode"} ELSE {})
                          \cup (IF policy \in {"copy", "copyrest"} THEN {"copy"} ELSE {}) :
                       Return(s, r)
                 /\ UNCHANGED <<cur, dirs, scratch>>
              \/ /\ policy \in {"copy", "copyrest"}
                 /\ dirs' = dirs \cup {Workdir}
                 /\ scratch' = WriteFile(scratch, Workdir, Base(pathName),
                                         [form |-> IF policy = "copy" THEN "raw" ELSE "rest",
                                          sess |-> s, idx |-> cur])
                 /\ cur' = cur + 1
                 /\ UNCHANGED <<faults, pc, callerPc, ret>>
              \/ /\ policy = "skip"
                 /\ cur' = cur + 1
                 /\ UNCHANGED <<faults, pc, callerPc, ret, dirs, scratch>>
              \/ /\ policy = "convert"
                 /\ pc' = "go"
                 /\ UNCHANGED <<faults, callerPc, ret, cur, dirs, scratch>>
  /\ UNCHANGED <<mutVars, funVars, caller, opts, numCPU, Nfiles, CurrFile, input, contents, cover, Workdir,
                 Ncontents, CurrContent, outputs, tasks, egErr, cancelled, late>>

\* eg.Go(func() error { return c.imageConvert(ctx, img, index, pathName) }):
\* blocks until the pool has a slot, then starts the task.
EgGo ==
  /\ pc = "go"
  /\ PoolHasSlot(CurrFile)
  /\ tasks' = tasks \cup {[sess |-> CurrFile, idx |-> cur, path |-> contents[cur + 1],
                           st |-> "spawned", dir |-> 0, name |-> "",
                           late |-> CtxErr(CurrFile)]}
  /\ late' = [late EXCEPT ![CurrFile] = @ + (IF CtxErr(CurrFile) THEN 1 ELSE 0)]
  /\ cur' = cur + 1
  /\ pc' = "loop"
  /\ UNCHANGED <<mutVars, funVars, caller, opts, numCPU, Nfiles, faults, callerPc, CurrFile, input, contents,
                 cover, Workdir, Ncontents, CurrContent, dirs, scratch, outputs,
                 egErr, cancelled, ret>>

\* eg.Wait(): returns when every task of the group has returned, with the
\* first error; without one Convert goes on to archiveSave.
EgWait ==
  /\ pc = "wait"
  /\ TasksOf(CurrFile) = {}
  /\ IF egErr[CurrFile] # "none"
     THEN Return(CurrFile, IF egErr[CurrFile] = "ctx" THEN "taskctx" ELSE "encode")
     ELSE /\ pc' = "save"
          /\ UNCHANGED <<callerPc, ret>>
  /\ UNCHANGED <<mutVars, funVars, caller, opts, numCPU, Nfiles, faults, CurrFile, input, contents, cover, cur,
                 Workdir, Ncontents, CurrContent, dirs, scratch, outputs, tasks,
                 egErr, cancelled, late>>

\* imageConvert up to the file name: the context check, the counter, the name
\* built from c.Workdir as it is now.
TaskStart(t) ==
  /\ t \in tasks
  /\ t.st = "spawned"
  /\ callerPc # "exited"
  /\ IF CtxErr(t.sess)
     THEN /\ egErr' = RecordErr(t.sess, "ctx")
          /\ tasks' = tasks \ {t}
          /\ UNCHANGED CurrContent
     ELSE /\ CurrContent' = CurrContent + 1
          /\ tasks' = (tasks \ {t}) \cup
                        {[t EXCEPT !.st = "running", !.dir = Workdir,
                                   !.name = imageConvertName(t.idx, t.path)]}
          /\ UNCHANGED egErr
  /\ UNCHANGED <<mutVars, funVars, caller, opts, numCPU, Nfiles, faults, callerPc, CurrFile, input, contents,
                 cover, pc, cur, Workdir, Ncontents, dirs, scratch, outputs,
                 cancelled, ret, late>>

\* The rest of imageConvert: the transform, os.Create of the file, the encode.
TaskWrite(t) ==
  /\ t \in tasks
  /\ t.st = "running"
  /\ callerPc # "exited"
  /\ tasks' = tasks \ {t}
  /\ \/ /\ t.dir \notin dirs
        /\ egErr' = RecordErr(t.sess, "encode")
        /\ UNCHANGED <<faults, scratch>>
     \/ /\ t.dir \in dirs
        /\ CanFault
        /\ faults' = faults + 1
        /\ egErr' = RecordErr(t.sess, "encode")
        /\ scratch' = WriteFile(scratch, t.dir, t.name,
                                [form |-> "broken", sess |-> t.sess, idx |-> t.idx])
     \/ /\ t.dir \in dirs
        /\ scratch' = WriteFile(scratch, t.dir, t.name,
                                [form |-> "enc", sess |-> t.sess, idx |-> t.idx])
        /\ UNCHANGED <<faults, egErr>>
  /\ UNCHANGED <<mutVars, funVars, caller, opts, numCPU, Nfiles, callerPc, CurrFile, input, contents, cover, pc,
                 cur, Workdir, Ncontents, CurrContent, dirs, outputs, cancelled, ret,
                 late>>

\* archiveSaveZip up to os.Create(zipName): after it the output archive exists.
SaveCreate ==
  /\ pc = "save"
  /\ \/ /\ CanFault
        /\ faults' = faults + 1
        /\ Return(CurrFile, "save")
        /\ UNCHANGED outputs
     \/ /\ outputs' = [outputs EXCEPT ![CurrFile] = "partial"]
        /\ pc' = "pack"
        /\ UNCHANGED <<faults, callerPc, ret>>
  /\ UNCHANGED <<mutVars, funVars, caller, opts, numCPU, Nfiles, CurrFile, input, contents, cover, cur, Workdir,
                 Ncontents, CurrContent, dirs, scratch, tasks, egErr, cancelled, late>>

\* The rest of archiveSaveZip: ReadDir of the scratch directory, one member
\* per file, the two Close calls, then os.RemoveAll(c.Workdir). Each error
\* return leaves the created archive where it is.
SavePack ==
  /\ pc = "pack"
  /\ \/ /\ CanFault \/ Workdir \notin dirs
        /\ faults' = IF Workdir \in dirs THEN faults + 1 ELSE faults
        /\ Return(CurrFile, "save")
        /\ UNCHANGED <<outputs, dirs, scratch>>
     \/ /\ Workdir \in dirs
        /\ CanFault
        /\ faults' = faults + 1
        /\ outputs' = [outputs EXCEPT ![CurrFile] = "complete"]
        /\ Return(CurrFile, "save")
        /\ UNCHANGED <<dirs, scratch>>
     \/ /\ Workdir \in dirs
        /\ outputs' = [outputs EXCEPT ![CurrFile] = "complete"]
        /\ dirs' = RemoveAllDirs(Workdir)
        /\ scratch' = RemoveAllFiles(Workdir)
        /\ Return(CurrFile, "nil")
        /\ UNCHANGED faults
  /\ UNCHANGED <<mutVars, funVars, caller, opts, numCPU, Nfiles, CurrFile, input, contents, cover, cur, Workdir,
                 Ncontents, CurrContent, tasks, egErr, cancelled, late>>

\* ---------------------------------------------------------------- callers

\* cmd/cbconvert: a Convert error prints and exits the process, leaving
\* conv.Workdir; cmd/cbconvert-gui: it removes c.Workdir, then stops on a
\* cancellation and goes on to the next file on any other error.
AfterConvert ==
  /\ callerPc = "returned"
  /\ LET r == ret[CurrFile]
     IN IF r = "nil"
        THEN /\ callerPc' = "loop"
             /\ UNCHANGED <<dirs, scratch, tasks>>
        ELSE IF caller = "cli"
        THEN /\ callerPc' = "exited"
             /\ tasks' = {}
             /\ UNCHANGED <<dirs, scratch>>
        ELSE /\ dirs' = RemoveAllDirs(Workdir)
             /\ scratch' = RemoveAllFiles(Workdir)
             /\ callerPc' = IF IsCanceled(r) THEN "done" ELSE "loop"
             /\ UNCHANGED tasks
  /\ UNCHANGED <<mutVars, funVars, caller, opts, numCPU, Nfiles, faults, CurrFile, input, contents, cover, pc,
                 cur, Workdir, Ncontents, CurrContent, outputs, egErr, cancelled, ret,
                 late>>

\* The list of files is exhausted: main returns (the process ends), the GUI's
\* goroutine posts "finish".
FilesDone ==
  /\ callerPc = "loop"
  /\ callerPc' = IF caller = "cli" THEN "exited" ELSE "done"
  /\ tasks' = IF caller = "cli" THEN {} ELSE tasks
  /\ UNCHANGED <<mutVars, funVars, caller, opts, numCPU, Nfiles, faults, CurrFile, input, contents, cover, pc,
                 cur, Workdir, Ncontents, CurrContent, dirs, scratch, outputs, egErr,
                 cancelled, ret, late>>

\* cmd/cbconvert's signal handler: os.RemoveAll(conv.Workdir), os.Exit(1).
Signal ==
  /\ caller = "cli"
  /\ callerPc # "exited"
  /\ dirs' = RemoveAllDirs(Workdir)
  /\ scratch' = RemoveAllFiles(Workdir)
  /\ callerPc' = "exited"
  /\ pc' = "idle"
  /\ tasks' = {}
  /\ UNCHANGED <<mutVars, funVars, caller, opts, numCPU, Nfiles, faults, CurrFile, input, contents, cover, cur,
                 Workdir, Ncontents, CurrContent, outputs, egErr, cancelled, ret, late>>

\* conv.Cancel() (the GUI's ESC key) cancels the context of the running Convert.
Cancel ==
  /\ caller = "gui"
  /\ callerPc = "convert"
  /\ ~cancelled[CurrFile]
  /\ cancelled' = [cancelled EXCEPT ![CurrFile] = TRUE]
  /\ UNCHANGED <<mutVars, funVars, caller, opts, numCPU, Nfiles, faults, callerPc, CurrFile, input, contents,
                 cover, pc, cur, Workdir, Ncontents, CurrContent, dirs, scratch,
                 outputs, tasks, egErr, ret, late>>

ConvNext ==
  \/ \E inp \in Inputs : ConvertStart(inp)
  \/ Iterate
  \/ EgGo
  \/ EgWait
  \/ \E t \in tasks : TaskStart(t)
  \/ \E t \in tasks : TaskWrite(t)
  \/ SaveCreate
  \/ SavePack
  \/ AfterConvert
  \/ FilesDone
  \/ Signal
  \/ Cancel

Next == ConvNext

\* One Convert call on a new Converter, for every input and option profile.
Init ==
  /\ ConvInit
  /\ MutIdle
  /\ FunIdle
  /\ opts \in OptProfiles
  /\ Nfiles = 1

Spec == Init /\ [][Next]_vars

\* A run of several Convert calls on one Converter, with the default options.
RunInit ==
  /\ ConvInit
  /\ MutIdle
  /\ FunIdle
  /\ opts = DefaultOpts
  /\ Nfiles \in 1..MaxFiles

SpecRun == RunInit /\ [][Next]_vars

\* The goroutines are scheduled: the producer goes on when its next step is
\* possible (eg.Go when the pool has a slot, eg.Wait when no task is left),
\* and a task that was started runs to its return, every decode, transform
\* and encode call returning.
Fairness ==
  /\ WF_vars(Iterate)
  /\ WF_vars(EgGo)
  /\ WF_vars(EgWait)
  /\ WF_vars(\E t \in tasks : TaskStart(t))
  /\ WF_vars(\E t \in tasks : TaskWrite(t))

SpecLive == Init /\ [][Next]_vars /\ Fairness

\* ----------------------------------------------------------------- mutator

\* The member names the archives handed to the mutator are built from.
MutPool == <<"001.jpg", "info.xml", "x/info.xml">>

RECURSIVE MutMembers(_, _)
MutMembers(S, from) ==
  IF from > Len(MutPool) THEN <<>>
  ELSE (IF from \in S
        THEN <<[name |-> MutPool[from], raw |-> <<"stored", MutPool[from]>>]>>
        ELSE <<>>) \o MutMembers(S, from + 1)

MutArchives ==
  {[members |-> MutMembers(S, 1), comment |-> c, complete |-> TRUE] :
     S \in {T \in SUBSET (1..Len(MutPool)) : Cardinality(T) <= MaxEntries},
     c \in {"", "old"}}

\* The calls: archiveSetComment(fileName, body), archiveFileAdd(fileName,
\* newFileName), archiveFileRemove(fileName, pattern).
MutCalls ==
  [op : {"comment"}, arg : {"", "new"}]
    \cup [op : {"add"}, arg : {"info.xml", "x/info.xml", "new.txt"}]
    \cup [op : {"remove"}, arg : {"*.xml", "x/*", "*", "["}]

\* filepath.Match for patterns of literals, "*" and "?" ("*" and "?" match no
\* Separator); a pattern with an unclosed "[" is malformed.
BadPattern(pattern) == Contains(pattern, "[")

RECURSIVE Match(_, _)
Match(pattern, name) ==
  IF pattern = "" THEN name = ""
  ELSE IF Head(pattern) = "*"
  THEN \/ Match(Tail(pattern), name)
       \/ name # "" /\ Head(name) # Separator /\ Match(pattern, Tail(name))
  ELSE IF Head(pattern) = "?"
  THEN name # "" /\ Head(name) # Separator /\ Match(Tail(pattern), Tail(name))
  ELSE name # "" /\ Head(name) = Head(pattern) /\ Match(Tail(pattern), Tail(name))

\* The copy loop matching the pattern against the base name of the member.
ExcludedByBase(call, item) ==
  \/ call.op = "add" /\ item.name = call.arg
  \/ call.op = "remove" /\ Match(call.arg, Base(item.name))

\* Whether the copy loop leaves the member out.
Excluded(call, item) ==
  \/ call.op = "add" /\ item.name = call.arg
  \/ call.op = "remove" /\ Match(call.arg, item.name)

MutCanFault == mFaults < MaxFaults

\* Every return runs the deferred os.Remove(tmpName).
MutReturn(r) ==
  /\ mRet' = r
  /\ mPc' = "done"
  /\ tmpFile' = "absent"

\* The writer without zw.SetComment.
TmpCommentNone(call) == ""

\* The comment of the new archive: zw.SetComment(commentBody) in
\* archiveSetComment; archiveFileAdd and archiveFileRemove set none.
TmpComment(call) == IF call.op = "comment" THEN call.arg ELSE ""

\* The head of the three functions: zip.OpenReader, os.CreateTemp,
\* zip.NewWriter (and SetComment for archiveSetComment).
MutCall(call) ==
  /\ mPc = "idle"
  /\ mOp' = call
  /\ zipBefore' = zipFile
  /\ \/ /\ MutCanFault
        /\ mFaults' = mFaults + 1
        /\ MutReturn("err")
        /\ UNCHANGED mIdx
     \/ /\ tmpFile' = [members |-> <<>>, comment |-> TmpComment(call)]
        /\ mPc' = "copy"
        /\ mIdx' = 0
        /\ UNCHANGED <<mRet, mFaults>>
  /\ UNCHANGED <<convVars, funVars, zipFile>>

\* One round of the loop over zr.File: the member is left out, or its raw
\* stream and header are copied (OpenRaw, CreateRaw, io.Copy).
MutCopy ==
  /\ mPc = "copy"
  /\ IF mIdx = Len(zipFile.members)
     THEN /\ mPc' = IF mOp.op = "add" THEN "new" ELSE "close"
          /\ UNCHANGED <<tmpFile, mIdx, mRet, mFaults>>
     ELSE LET item == zipFile.members[mIdx + 1]
          IN IF mOp.op = "remove" /\ BadPattern(mOp.arg)
             THEN /\ MutReturn("err")
                  /\ UNCHANGED <<mIdx, mFaults>>
             ELSE IF Excluded(mOp, item)
             THEN /\ mIdx' = mIdx + 1
                  /\ UNCHANGED <<tmpFile, mPc, mRet, mFaults>>
             ELSE \/ /\ MutCanFault
                     /\ mFaults' = mFaults + 1
                     /\ MutReturn("err")
                     /\ UNCHANGED mIdx
                  \/ /\ tmpFile' = [tmpFile EXCEPT !.members = Append(@, item)]
                     /\ mIdx' = mIdx + 1
                     /\ UNCHANGED <<mPc, mRet, mFaults>>
  /\ UNCHANGED <<convVars, funVars, zipFile, zipBefore, mOp>>

\* archiveFileAdd after the loop: os.Stat and os.ReadFile of the new file,
\* zip.FileInfoHeader (the member is named info.Name()), CreateHeader, Write.
MutAddNew ==
  /\ mPc = "new"
  /\ \/ /\ MutCanFault
        /\ mFaults' = mFaults + 1
        /\ MutReturn("err")
     \/ /\ tmpFile' = [tmpFile EXCEPT !.members =
                         Append(@, [name |-> Base(mOp.arg), raw |-> <<"deflate", mOp.arg>>])]
        /\ mPc' = "close"
        /\ UNCHANGED <<mRet, mFaults>>
  /\ UNCHANGED <<convVars, funVars, zipFile, zipBefore, mOp, mIdx>>

\* zw.Close, zf.Close and os.ReadFile(tmpName).
MutClose ==
  /\ mPc = "close"
  /\ \/ /\ MutCanFault
        /\ mFaults' = mFaults + 1
        /\ MutReturn("err")
     \/ /\ mPc' = "write"
        /\ UNCHANGED <<tmpFile, mRet, mFaults>>
  /\ UNCHANGED <<convVars, funVars, zipFile, zipBefore, mOp, mIdx>>

\* os.WriteFile(fileName, data, 0644): opens the file truncating it, writes,
\* closes. It fails before the open (the file is as it was) or after it (the
\* file holds the first k members of the new bytes, and no directory).
MutWriteBack ==
  /\ mPc = "write"
  /\ \/ /\ zipFile' = [members |-> tmpFile.members, comment |-> tmpFile.comment,
                       complete |-> TRUE]
        /\ MutReturn("nil")
        /\ UNCHANGED mFaults
     \/ /\ MutCanFault
        /\ mFaults' = mFaults + 1
        /\ MutReturn("err")
        /\ \/ UNCHANGED zipFile
           \/ \E k \in 0..Len(tmpFile.members) :
                zipFile' = [members |-> SubSeq(tmpFile.members, 1, k), comment |-> "",
                            complete |-> FALSE]
  /\ UNCHANGED <<convVars, funVars, zipBefore, mOp, mIdx>>

MutNext ==
  \/ \E call \in MutCalls : MutCall(call)
  \/ MutCopy
  \/ MutAddNew
  \/ MutClose
  \/ MutWriteBack

\* One call of the mutator on an archive.
MutInit ==
  /\ ConvInit
  /\ FunIdle
  /\ caller = "cli"
  /\ numCPU = 1
  /\ opts = DefaultOpts
  /\ Nfiles = 0
  /\ zipFile \in MutArchives
  /\ zipBefore = zipFile
  /\ tmpFile = "absent"
  /\ mOp = [op |-> "none", arg |-> ""]
  /\ mPc = "idle"
  /\ mIdx = 0
  /\ mRet = "none"
  /\ mFaults = 0

SpecMut == MutInit /\ [][MutNext]_vars

\* ------------------------------------------------------------ cover selector

\* Most calls of one function on one argument.
MaxCalls == 2

\* The conversion is not used.
ConvIdle ==
  /\ ConvInit
  /\ caller = "cli"
  /\ numCPU = 1
  /\ opts = DefaultOpts
  /\ Nfiles = 0

\* The image names the lists handed to coverName are built from: numbered
\* pages, two that differ in case only, names with and without a directory
\* whose base begins or ends with "cover" or "front".
CoverPool ==
  {"page10.jpg", "page2.jpg", "page1.jpg", "Page1.jpg", "a/001.jpg",
   "Cover.jpg", "cover01.jpg", "x/backfront.png", "b/cover01.jpg"}

\* The lists of at most MaxEntries different names.
CoverLists ==
  {q \in UNION {[1..n -> CoverPool] : n \in 0..MaxEntries} :
     \A i, j \in 1..Len(q) : i # j => q[i] # q[j]}

CoverInit ==
  /\ ConvIdle
  /\ MutIdle
  /\ fnOp = "coverName"
  /\ fnIn \in CoverLists
  /\ fnOut = NotCalled
  /\ fnCalls = 0

\* c.coverName(images)
CoverCall ==
  /\ fnOp = "coverName"
  /\ fnCalls < MaxCalls
  /\ fnOut' = [called |-> TRUE, val |-> coverName(fnIn)]
  /\ fnCalls' = fnCalls + 1
  /\ UNCHANGED <<convVars, mutVars, fnOp, fnIn>>

CoverNext == CoverCall

SpecCover == CoverInit /\ [][CoverNext]_vars

\* ------------------------------------------------------------------- Files

\* TLC's integers have 32 bits, so int64 is modelled at a smaller width: a
\* word of WordBits bits and a megabyte of 2^MBBits bytes stand for the 64
\* bits and the 1024*1024 bytes of the program.
WordBits == 8

MBBits == 2

\* Most arguments of one Files call.
MaxArgs == 2

RECURSIVE TwoTo(_)
TwoTo(n) == IF n = 0 THEN 1 ELSE 2 * TwoTo(n - 1)

\* The value an int64 holds after an operation whose exact result is x.
Wrap(x) ==
  LET m == TwoTo(WordBits)
      r == x % m
  IN IF r >= TwoTo(WordBits - 1) THEN r - m ELSE r

\* 1024*1024
MB == TwoTo(MBBits)

\* isSize(a, b): a is the threshold c.Opts.Size in megabytes, b the size in bytes.
isSize(a, b) == ~(a > 0 /\ b < Wrap(a * MB))

isArchive(f) ==
  ToLower(Ext(f)) \in {".rar", ".zip", ".7z", ".tar", ".cbr", ".cbz", ".cb7", ".cbt"}

isDocument(f) == ToLower(Ext(f)) \in {".pdf", ".xps", ".epub", ".mobi"}

\* filepath.Dir of a clean path.
Dir(p) ==
  LET i == LastSlash(p, Len(p))
  IN IF i = 0 THEN "." ELSE IF i = 1 THEN "/" ELSE Take(p, i - 1)

\* The working directory of the process.
Cwd == "/w"

\* filepath.Join of two clean, non-empty elements.
Join(d, name) == IF d = "/" THEN "/" \o name ELSE d \o "/" \o name

\* filepath.Abs
Abs(p) == IF HasPrefix(p, "/") THEN p ELSE Join(Cwd, p)

\* The files and directories below the working directory, in the order
\* filepath.Walk visits them (a directory, then its children by name): a
\* directory of images, a directory holding an archive of exactly one
\* megabyte, a smaller document, an image and a subdirectory, a directory
\* whose only archive is smaller than a megabyte, a tree of three nested
\* directories (one image, two images, one image beside a text file), and an
\* archive.
FSTree ==
  <<[path |-> "/w/imgs", dir |-> TRUE, size |-> 0],
    [path |-> "/w/imgs/1.jpg", dir |-> FALSE, size |-> 1],
    [path |-> "/w/imgs/2.jpg", dir |-> FALSE, size |-> 1],
    [path |-> "/w/mix", dir |-> TRUE, size |-> 0],
    [path |-> "/w/mix/1.jpg", dir |-> FALSE, size |-> 1],
    [path |-> "/w/mix/a.cbz", dir |-> FALSE, size |-> MB],
    [path |-> "/w/mix/b.pdf", dir |-> FALSE, size |-> MB - 1],
    [path |-> "/w/mix/sub", dir |-> TRUE, size |-> 0],
    [path |-> "/w/mix/sub/c.zip", dir |-> FALSE, size |-> 2 * MB + 1],
    [path |-> "/w/small", dir |-> TRUE, size |-> 0],
    [path |-> "/w/small/s.cbr", dir |-> FALSE, size |-> MB - 1],
    [path |-> "/w/tree", dir |-> TRUE, size |-> 0],
    [path |-> "/w/tree/one", dir |-> TRUE, size |-> 0],
    [path |-> "/w/tree/one/1.jpg", dir |-> FALSE, size |-> 1],
    [path |-> "/w/tree/pair", dir |-> TRUE, size |-> 0],
    [path |-> "/w/tree/pair/1.jpg", dir |-> FALSE, size |-> 1],
    [path |-> "/w/tree/pair/2.jpg", dir |-> FALSE, size |-> 1],
    [path |-> "/w/tree/text", dir |-> TRUE, size |-> 0],
    [path |-> "/w/tree/text/1.jpg", dir |-> FALSE, size |-> 1],
    [path |-> "/w/tree/text/notes.txt", dir |-> FALSE, size |-> 1],
    [path |-> "/w/x.CBZ", dir |-> FALSE, size |-> MB]>>

\* The arguments: names relative to the working directory, one of them missing.
ArgPool == {"imgs", "mix", "small", "tree", "x.CBZ", "nope"}

\* The thresholds c.Opts.Size: none, one and two megabytes, and the least
\* one whose product with a megabyte leaves the int64 range.
SizePool == {0, 1, 2, TwoTo(WordBits - 1 - MBBits)}

FilesInputs ==
  [args : UNION {[1..n -> ArgPool] : n \in 1..MaxArgs},
   size : SizePool,
   recursive : BOOLEAN]

\* os.Stat(path) succeeds.
Exists(path) == \E i \in 1..Len(FSTree) : FSTree[i].path = path

\* os.Stat(path)
Stat(path) == FSTree[CHOOSE i \in 1..Len(FSTree) : FSTree[i].path = path]

\* os.ReadDir(path): the immediate children, by name.
ReadDir(path) == SelectSeq(FSTree, LAMBDA e : Dir(e.path) = path)

\* filepath.Walk(path, fn): the order in which fn is called.
Walk(path) ==
  SelectSeq(FSTree, LAMBDA e : e.path = path \/ HasPrefix(e.path, path \o "/"))

toFile(fp, f) == [Name |-> Base(fp), Path |-> fp, IsDir |-> f.dir, Size |-> f.size]

\* An archive or document that passes the size filter.
Taken(e) ==
  /\ ~e.dir
  /\ isArchive(e.path) \/ isDocument(e.path)
  /\ isSize(fnIn.size, e.size)

RECURSIVE ToFiles(_)
ToFiles(es) == IF es = <<>> THEN <<>> ELSE <<toFile(Head(es).path, Head(es))>> \o ToFiles(Tail(es))

\* filepath.Walk(path, walkFiles)
walkFiles(path) == ToFiles(SelectSeq(Walk(path), Taken))

\* The loop over os.ReadDir(path) of the non-recursive branch.
ChildFiles(path) == ToFiles(SelectSeq(ReadDir(path), Taken))

\* filepath.Walk(path, walkDirs): the directories with more than one child
\* that is not a directory.
walkDirs(path) ==
  ToFiles(SelectSeq(Walk(path),
                    LAMBDA e : e.dir /\ Len(SelectSeq(ReadDir(e.path), LAMBDA f : ~f.dir)) > 1))

\* One round of the loop over args, for an argument that exists: files is
\* the list built so far.
FilesOfArg(path, files) ==
  LET stat == Stat(path)
  IN IF ~stat.dir
     THEN IF Taken(stat) THEN Append(files, toFile(path, stat)) ELSE files
     ELSE LET found == files \o (IF fnIn.recursive THEN walkFiles(path) ELSE ChildFiles(path))
          IN IF Len(found) = 0
             THEN IF fnIn.recursive THEN found \o walkDirs(path)
                  ELSE Append(found, toFile(path, stat))
             ELSE found

FilesInit ==
  /\ ConvIdle
  /\ MutIdle
  /\ fnOp = "Files"
  /\ fnIn \in FilesInputs
  /\ fnOut = NotCalled
  /\ fnCalls = 0

\* c.Files(args) is called: var files []File.
FilesCall ==
  /\ fnOp = "Files"
  /\ ~fnOut.called
  /\ fnOut' = [called |-> TRUE, done |-> FALSE, err |-> FALSE, i |-> 0, val |-> <<>>]
  /\ fnCalls' = fnCalls + 1
  /\ UNCHANGED <<convVars, mutVars, fnOp, fnIn>>

\* One round of the loop over args: filepath.Abs, os.Stat (an error returns
\* the files found so far), then the file or directory branch.
FilesArg ==
  /\ fnOp = "Files"
  /\ fnOut.called
  /\ ~fnOut.done
  /\ fnOut.i < Len(fnIn.args)
  /\ LET path == Abs(fnIn.args[fnOut.i + 1])
     IN IF ~Exists(path)
        THEN fnOut' = [fnOut EXCEPT !.done = TRUE, !.err = TRUE]
        ELSE fnOut' = [fnOut EXCEPT !.i = @ + 1, !.val = FilesOfArg(path, fnOut.val)]
  /\ UNCHANGED <<convVars, mutVars, fnOp, fnIn, fnCalls>>

\* c.Nfiles = len(files); return files, nil
FilesReturn ==
  /\ fnOp = "Files"
  /\ fnOut.called
  /\ ~fnOut.done
  /\ fnOut.i = Len(fnIn.args)
  /\ fnOut' = [fnOut EXCEPT !.done = TRUE]
  /\ Nfiles' = Len(fnOut.val)
  /\ UNCHANGED <<mutVars, fnOp, fnIn, fnCalls, caller, opts, numCPU, faults, callerPc,
                 CurrFile, input, contents, cover, pc, cur, Workdir, Ncontents,
                 CurrContent, dirs, scratch, outputs, tasks, egErr, cancelled, ret, late>>

FilesNext ==
  \/ FilesCall
  \/ FilesArg
  \/ FilesReturn

SpecFiles == FilesInit /\ [][FilesNext]_vars

\* -------------------------------------------------------------- page names

\* The page indices the names are compared for: around each change of the
\* number of digits, up to the first index of four digits.
PageIndices == {0, 1, 2, 9, 10, 11, 99, 100, 101, 999, 1000, 1001}

PagesInit ==
  /\ ConvIdle
  /\ MutIdle
  /\ fnOp = "imageConvert"
  /\ fnIn \in PageIndices \X PageIndices
  /\ fnOut = NotCalled
  /\ fnCalls = 0

\* imageConvert(ctx, img, n, "") for two pages of one document: the names of
\* the files it writes.
PagesCall ==
  /\ fnOp = "imageConvert"
  /\ fnCalls < MaxCalls
  /\ fnOut' = [called |-> TRUE,
               val |-> <<imageConvertName(fnIn[1], ""), imageConvertName(fnIn[2], "")>>]
  /\ fnCalls' = fnCalls + 1
  /\ UNCHANGED <<convVars, mutVars, fnOp, fnIn>>

PagesNext == PagesCall

SpecPages == PagesInit /\ [][PagesNext]_vars

\* ------------------------------------------------------------------ scaling

\* The widths and heights of the source images, and the values of c.Opts.Width
\* and c.Opts.Height (0 is "not configured").
SrcSizes == {1, 2, 3, 5, 300, 600}

OptSizes == {0, 1, 2, 4, 400}

Max(a, b) == IF a >= b THEN a ELSE b

\* int(math.Max(1.0, math.Floor(float64(a)*float64(b)/float64(c) + 0.5))): for
\* operands of this size the float64 product is exact and the quotient is far
\* closer to the rational a*b/c than the distance of a*b/c + 0.5 to the next
\* integer, so the floor is the floor of the rational.
RoundDim(a, b, c) == Max(1, (2 * a * b + c) \div (2 * c))

\* resize: the size of the image it returns (transform.Resize returns an
\* image of dstW x dstH, imageToRGBA one of the size of the source).
resize(srcW, srcH, width, height) ==
  LET dstW == IF width = 0 THEN RoundDim(height, srcW, srcH) ELSE width
      dstH == IF height = 0 THEN RoundDim(dstW, srcH, srcW) ELSE height
  IN IF srcW = dstW /\ srcH = dstH THEN <<srcW, srcH>> ELSE <<dstW, dstH>>

\* fit: the size of the image it returns. srcAspectRatio > maxAspectRatio
\* compares srcW/srcH with maxW/maxH in float64, where maxW/0 is +Inf: the
\* comparison of the products is the same. With a bound of 0 the quotient and
\* the product below are 0; with two positive bounds int() truncates the
\* float64 value, which is the integer quotient here unless rounding leaves
\* the float64 quotient just under an integer.
fit(srcW, srcH, maxW, maxH) ==
  IF srcW <= maxW /\ srcH <= maxH THEN <<srcW, srcH>>
  ELSE IF srcW * maxH > maxW * srcH
  THEN resize(srcW, srcH, maxW, (maxW * srcH) \div srcW)
  ELSE resize(srcW, srcH, (maxH * srcW) \div srcH, maxH)

\* The scaling step of imageTransform: the size of the image after it.
imageTransform(srcW, srcH, o) ==
  IF o.Width > 0 \/ o.Height > 0
  THEN IF o.Fit THEN fit(srcW, srcH, o.Width, o.Height)
       ELSE resize(srcW, srcH, o.Width, o.Height)
  ELSE <<srcW, srcH>>

\* The scaling step of Thumbnail without a configured size:
\* imaging.Resize(cover, 256, 0, filter), which keeps the aspect ratio as
\* resize does.
ThumbnailSize == 256

Thumbnail(srcW, srcH) == resize(srcW, srcH, ThumbnailSize, 0)

\* An image and the scaling options: one of Width and Height configured for
\* imageTransform, none for Thumbnail.
ScaleInputs ==
  {x \in [srcW : SrcSizes, srcH : SrcSizes, Width : OptSizes, Height : OptSizes,
          Fit : BOOLEAN] :
     (x.Width = 0) # (x.Height = 0)}

ThumbInputs ==
  [srcW : SrcSizes, srcH : SrcSizes, Width : {0}, Height : {0}, Fit : BOOLEAN]

ScaleInit ==
  /\ ConvIdle
  /\ MutIdle
  /\ \/ fnOp = "imageTransform" /\ fnIn \in ScaleInputs
     \/ fnOp = "Thumbnail" /\ fnIn \in ThumbInputs
  /\ fnOut = NotCalled
  /\ fnCalls = 0

\* c.imageTransform(img)
TransformCall ==
  /\ fnOp = "imageTransform"
  /\ fnCalls < MaxCalls
  /\ fnOut' = [called |-> TRUE, val |-> imageTransform(fnIn.srcW, fnIn.srcH, fnIn)]
  /\ fnCalls' = fnCalls + 1
  /\ UNCHANGED <<convVars, mutVars, fnOp, fnIn>>

\* c.Thumbnail(fileName, fileInfo) up to the scaled cover.
ThumbnailCall ==
  /\ fnOp = "Thumbnail"
  /\ fnCalls < MaxCalls
  /\ fnIn.Width = 0 /\ fnIn.Height = 0
  /\ fnOut' = [called |-> TRUE, val |-> Thumbnail(fnIn.srcW, fnIn.srcH)]
  /\ fnCalls' = fnCalls + 1
  /\ UNCHANGED <<convVars, mutVars, fnOp, fnIn>>

ScaleNext == TransformCall \/ ThumbnailCall

SpecScale == ScaleInit /\ [][ScaleNext]_vars

\* ----------------------------------------------------------- output archive

\* The inputs of a run, as Files returns them: absolute paths of archives,
\* documents and directories, among them two of one directory that differ in
\* the extension only and two of one name in different directories.
SavePool == {"/w/mix/a.cbz", "/w/mix/a.pdf", "/w/mix/b.pdf", "/w/x/a.cbz", "/w/imgs"}

\* A run: two different inputs in their order, and the options that name the
\* output: c.Opts.Recursive, c.Opts.OutDir, c.Opts.Suffix.
SaveInputs ==
  {x \in [files : SavePool \X SavePool, Recursive : BOOLEAN, OutDir : {"/out"},
          Suffix : {"", "_new"}] :
     x.files[1] # x.files[2]}

\* Index of the first "/" of s from i on, 0 when there is none.
RECURSIVE FirstSlash(_, _)
FirstSlash(s, i) ==
  IF i > Len(s) THEN 0 ELSE IF At(s, i) = "/" THEN i ELSE FirstSlash(s, i + 1)

\* filepath.Join(strings.Split(dir, "/")[1:]...): dir without its first element.
WithoutFirstElement(dir) ==
  LET i == FirstSlash(dir, 1) IN IF i = 0 THEN "" ELSE Drop(dir, i)

\* zipName of archiveSaveZip.
zipName(fileName, o) ==
  LET name == baseNoExt(fileName) \o o.Suffix \o ".cbz"
      fDir == WithoutFirstElement(Dir(fileName))
  IN IF o.Recursive /\ fDir # "" THEN Join(Join(o.OutDir, fDir), name)
     ELSE Join(o.OutDir, name)

SaveInit ==
  /\ ConvIdle
  /\ MutIdle
  /\ fnOp = "archiveSave"
  /\ fnIn \in SaveInputs
  /\ fnOut = [called |-> FALSE, i |-> 0, val |-> {}]
  /\ fnCalls = 0

\* archiveSaveZip of the next input of the run: os.Create(zipName) replaces a
\* file of that name, and the archive written holds the pages of this input.
\* val is the output directory: the archives in it and the input each is of.
SaveCall ==
  /\ fnOp = "archiveSave"
  /\ fnOut.i < Len(fnIn.files)
  /\ LET k == fnOut.i + 1
         name == zipName(fnIn.files[k], fnIn)
     IN fnOut' = [called |-> TRUE, i |-> k,
                  val |-> {a \in fnOut.val : a.path # name}
                            \cup {[path |-> name, of |-> fnIn.files[k]]}]
  /\ fnCalls' = fnCalls + 1
  /\ UNCHANGED <<convVars, mutVars, fnOp, fnIn>>

SaveNext == SaveCall

SpecSave == SaveInit /\ [][SaveNext]_vars

\* --------------------------------------------------------------- cbconvert

\* A start of the command-line program: its arguments and options, whether
\* the output directory exists, whether os.MkdirAll of it would fail, and
\* whether a Convert call would return an error.
MainInputs ==
  {x \in [args : UNION {[1..n -> ArgPool] : n \in 1..MaxArgs}, size : {0, 1},
          recursive : BOOLEAN, outDirExists : BOOLEAN, mkdirFails : BOOLEAN,
          convertFails : BOOLEAN] :
     x.outDirExists => ~x.mkdirFails}

\* conv.Files(args): the loop over args from argument k on, files being the
\* list built so far.
RECURSIVE FilesFrom(_, _)
FilesFrom(k, files) ==
  IF k > Len(fnIn.args) THEN [err |-> FALSE, val |-> files]
  ELSE IF ~Exists(Abs(fnIn.args[k])) THEN [err |-> TRUE, val |-> files]
  ELSE FilesFrom(k + 1, FilesOfArg(Abs(fnIn.args[k]), files))

MainInit ==
  /\ ConvIdle
  /\ MutIdle
  /\ fnOp = "main"
  /\ fnIn \in MainInputs
  /\ fnOut = NotCalled
  /\ fnCalls = 0

\* main up to the test of the output directory: if os.Stat(opts.OutDir)
\* returns an error, os.MkdirAll, then os.Exit(1).
MainOutDir ==
  /\ fnOp = "main"
  /\ ~fnOut.called
  /\ fnOut' = IF fnIn.outDirExists
              THEN [called |-> TRUE, pc |-> "files", code |-> 0, outDir |-> TRUE,
                    files |-> <<>>, listed |-> FALSE, i |-> 0]
              ELSE [called |-> TRUE, pc |-> "exited", code |-> 1,
                    outDir |-> ~fnIn.mkdirFails,
                    files |-> <<>>, listed |-> FALSE, i |-> 0]
  /\ fnCalls' = fnCalls + 1
  /\ UNCHANGED <<convVars, mutVars, fnOp, fnIn>>

\* files, err := conv.Files(args); an error exits with 1.
MainFiles ==
  /\ fnOp = "main"
  /\ fnOut.called
  /\ fnOut.pc = "files"
  /\ LET r == FilesFrom(1, <<>>)
     IN fnOut' = IF r.err
                 THEN [fnOut EXCEPT !.pc = "exited", !.code = 1, !.listed = TRUE]
                 ELSE [fnOut EXCEPT !.pc = "loop", !.files = r.val, !.listed = TRUE]
  /\ UNCHANGED <<convVars, mutVars, fnOp, fnIn, fnCalls>>

\* One round of the loop over files: conv.Convert(file.Path, file.Stat); an
\* error exits with 1.
MainConvert ==
  /\ fnOp = "main"
  /\ fnOut.called
  /\ fnOut.pc = "loop"
  /\ fnOut.i < Len(fnOut.files)
  /\ fnOut' = IF fnIn.convertFails
              THEN [fnOut EXCEPT !.pc = "exited", !.code = 1]
              ELSE [fnOut EXCEPT !.i = @ + 1]
  /\ UNCHANGED <<convVars, mutVars, fnOp, fnIn, fnCalls>>

\* The loop is over: main returns.
MainReturn ==
  /\ fnOp = "main"
  /\ fnOut.called
  /\ fnOut.pc = "loop"
  /\ fnOut.i = Len(fnOut.files)
  /\ fnOut' = [fnOut EXCEPT !.pc = "exited"]
  /\ UNCHANGED <<convVars, mutVars, fnOp, fnIn, fnCalls>>

MainNext ==
  \/ MainOutDir
  \/ MainFiles
  \/ MainConvert
  \/ MainReturn

SpecMain == MainInit /\ [][MainNext]_vars

\* ----------------------------------------------------------- cbconvert-gui

\* Most events of the file list handled in one session.
MaxEvents == 3

\* The files that were added to the list.
GuiPool == {"a.cbz", "b.cbz", "c.pdf"}

GuiLists ==
  {q \in UNION {[1..n -> GuiPool] : n \in 0..MaxEntries} :
     \A i, j \in 1..Len(q) : i # j => q[i] # q[j]}

\* slices.Delete(s, i, j): s without s[i:j] (0-based, j exclusive).
Delete(s, i, j) == Take(s, i) \o Drop(s, j)

\* The list's REMOVEITEM: the items without item n (1-based); a value that
\* names no item removes nothing.
RemoveItem(items, n) ==
  IF n \in 1..Len(items) THEN Take(items, n - 1) \o Drop(items, n) ELSE items

\* After the files were added: the slice files and the items of the list are
\* the same, index is -1 and no item is selected (VALUE 0).
GuiInit ==
  /\ ConvIdle
  /\ MutIdle
  /\ fnOp = "gui"
  /\ fnIn \in GuiLists
  /\ fnOut = [called |-> FALSE, ev |-> "none", files |-> fnIn, items |-> fnIn,
              index |-> -1, value |-> 0]
  /\ fnCalls = 0

\* The list's ACTION callback with state 1: the user selects an item.
onSelect(item) ==
  /\ fnOp = "gui"
  /\ fnCalls < MaxEvents
  /\ item \in 1..Len(fnOut.items)
  /\ fnOut' = [fnOut EXCEPT !.called = TRUE, !.ev = "select", !.index = item - 1,
                            !.value = item]
  /\ fnCalls' = fnCalls + 1
  /\ UNCHANGED <<convVars, mutVars, fnOp, fnIn>>

\* onRemove, when it does not return IGNORE. What the list selects after
\* REMOVEITEM is the toolkit's choice: no item, or the item now at the place.
onRemove ==
  /\ fnOp = "gui"
  /\ fnCalls < MaxEvents
  /\ ~(fnOut.index = -1 \/ Len(fnOut.files) = 0)
  /\ LET files == IF Len(fnOut.files) = 1 THEN <<>>
                  ELSE Delete(fnOut.files, fnOut.index, fnOut.index)
         items == RemoveItem(fnOut.items, fnOut.value)
     IN \E v \in {0, fnOut.value} :
          /\ v <= Len(items)
          /\ fnOut' = [fnOut EXCEPT !.called = TRUE, !.ev = "remove", !.files = files,
                                    !.items = items, !.value = v]
  /\ fnCalls' = fnCalls + 1
  /\ UNCHANGED <<convVars, mutVars, fnOp, fnIn>>

\* onRemoveAll
onRemoveAll ==
  /\ fnOp = "gui"
  /\ fnCalls < MaxEvents
  /\ fnOut' = [fnOut EXCEPT !.called = TRUE, !.ev = "removeAll", !.files = <<>>,
                            !.items = <<>>, !.index = -1, !.value = 0]
  /\ fnCalls' = fnCalls + 1
  /\ UNCHANGED <<convVars, mutVars, fnOp, fnIn>>

GuiNext ==
  \/ \E item \in 1..MaxEntries : onSelect(item)
  \/ onRemove
  \/ onRemoveAll

SpecGui == GuiInit /\ [][GuiNext]_vars

\* ------------------------------------------------------------------ claims

\* C1: whenever Convert has returned an error, no output archive of that
\* input, complete or partial, exists.
C1_NoOutputOnError ==
  \A s \in Sessions : IsError(ret[s]) => outputs[s] = "none"

\* The caller has finished handling call s: it went on to the next file,
\* stopped, or the process ended.
Handled(s) ==
  /\ s <= CurrFile
  /\ s < CurrFile \/ callerPc \in {"loop", "done", "exited"}

\* C2: once the handling of an input has finished (success, error or
\* cancellation) its scratch directory is no longer on disk.
C2_ScratchRemoved ==
  \A s \in Sessions : Handled(s) => s \notin dirs

\* C3: when a convert function has returned, none of its imageConvert tasks
\* is still running, and no file of a scratch directory comes from a task of
\* another call.
C3_NoTaskOutlivesConvert ==
  /\ \A s \in Sessions : ret[s] # "none" => TasksOf(s) = {}
  /\ \A s \in Sessions : (s = CurrFile /\ pc \in {"save", "pack"}) => TasksOf(s) = {}
  /\ \A t \in tasks : t.st = "running" => t.dir = t.sess
  /\ \A f \in scratch : f.content.sess = f.dir

\* C4: no step writes an entry over the file another entry of the input was
\* written to.
C4_UniqueNames ==
  [][\A f \in scratch, g \in scratch' :
       (f.dir = g.dir /\ f.name = g.name) =>
         (f.content.sess = g.content.sess /\ f.content.idx = g.content.idx)]_vars

\* The name and content entry i (1-based) of the input gets when the entries
\* are handled one after the other.
EntryName(i) ==
  IF Policy(input.kind, contents[i]) = "convert"
  THEN imageConvertName(i - 1, contents[i])
  ELSE Base(contents[i])

EntryContent(i) ==
  [form |-> CASE Policy(input.kind, contents[i]) = "convert" -> "enc"
              [] Policy(input.kind, contents[i]) = "copy" -> "raw"
              [] OTHER -> "rest",
   sess |-> CurrFile, idx |-> i - 1]

RECURSIVE SequentialFiles(_)
SequentialFiles(k) ==
  IF k = 0 THEN {}
  ELSE IF Policy(input.kind, contents[k]) = "skip" THEN SequentialFiles(k - 1)
  ELSE WriteFile(SequentialFiles(k - 1), Workdir, EntryName(k), EntryContent(k))

\* C5: when packaging starts, the files of the scratch directory are those
\* the input and the options determine, whatever the interleaving of the tasks.
C5_ScheduleIndependent ==
  pc = "save" => FilesIn(Workdir) = SequentialFiles(Len(contents))

\* C6 as stated, for its first trigger: once a task of a call has returned an
\* error (and no cancel was requested), no further task of that call is
\* dispatched.
C6_NoDispatchAfterError ==
  [][\A t \in tasks' \ tasks :
       (t.st = "spawned" /\ ~cancelled[t.sess]) => egErr[t.sess] = "none"]_vars

\* C6 as amended: after the context is cancelled at most one more entry is
\* dispatched (the one whose iteration had passed the check), and a task
\* dispatched after the cancellation never gets past its own context check.
C6_AtMostOneLateDispatch ==
  /\ \A s \in Sessions : late[s] <= 1
  /\ \A t \in tasks : t.late => t.st = "spawned"

C6_Witness ==
  \E s \in Sessions : late[s] = 1 /\ egErr[s] = "encode" /\ ~cancelled[s]

\* C7: a conversion in which a task failed and no cancel was requested does
\* not return context.Canceled; it returns context.Canceled only when a
\* cancel was requested.
C7_CanceledOnlyOnCancel ==
  /\ \A s \in Sessions :
       (IsError(ret[s]) /\ egErr[s] = "encode" /\ ~cancelled[s]) => ~IsCanceled(ret[s])
  /\ \A s \in Sessions : IsCanceled(ret[s]) => cancelled[s]

\* C8: the tasks of one conversion that have started and not returned number
\* at most NumCPU + 1, and with that many the producer cannot start another.
C8_PoolBounded ==
  /\ \A s \in Sessions : Cardinality(TasksOf(s)) <= numCPU + 1
  /\ (pc = "go" /\ Cardinality(TasksOf(CurrFile)) = numCPU + 1) => ~ENABLED EgGo

C8_Witness ==
  pc = "go" /\ Cardinality(TasksOf(CurrFile)) = numCPU + 1

\* C9: CurrContent never exceeds Ncontents.
C9_CurrAtMostTotal == CurrContent <= Ncontents

\* C10: when archiveSetComment, archiveFileAdd or archiveFileRemove has
\* returned an error, the archive file holds the bytes it held before the call.
C10_OriginalIntactOnError ==
  mRet = "err" => zipFile = zipBefore

\* The number of members of that name.
CountName(members, n) == Cardinality({i \in 1..Len(members) : members[i].name = n})

\* C11: after a successful archiveFileAdd the archive has exactly one member
\* of the name the new file is stored under, holding the new file's content,
\* and every pre-existing member of another name is still there.
C11_AddReplaces ==
  (mOp.op = "add" /\ mRet = "nil") =>
    LET stored == Base(mOp.arg)
    IN /\ CountName(zipFile.members, stored) = 1
       /\ [name |-> stored, raw |-> <<"deflate", mOp.arg>>] \in Range(zipFile.members)
       /\ \A i \in 1..Len(zipBefore.members) :
            zipBefore.members[i].name # stored =>
              zipBefore.members[i] \in Range(zipFile.members)

\* The members the pattern does not match, in order.
RECURSIVE Unmatched(_, _)
Unmatched(pattern, members) ==
  IF members = <<>> THEN <<>>
  ELSE (IF Match(pattern, Head(members).name) THEN <<>> ELSE <<Head(members)>>)
         \o Unmatched(pattern, Tail(members))

\* C12: after a successful archiveFileRemove no member name matches the
\* pattern, and the members are those of before that do not match it, in the
\* same order, each with its header and raw bytes.
C12_RemoveKeepsOthers ==
  (mOp.op = "remove" /\ mRet = "nil") =>
    /\ \A i \in 1..Len(zipFile.members) : ~Match(mOp.arg, zipFile.members[i].name)
    /\ zipFile.members = Unmatched(mOp.arg, zipBefore.members)

C12_Witness ==
  /\ mOp = [op |-> "remove", arg |-> "*.xml"]
  /\ mRet = "nil"
  /\ Len(zipBefore.members) = 3
  /\ Len(zipFile.members) = 2

\* C13: after a successful archiveSetComment the comment is the body and the
\* members are those of before, in order, each with its header and raw bytes.
C13_CommentOnly ==
  (mOp.op = "comment" /\ mRet = "nil") =>
    /\ zipFile.comment = mOp.arg
    /\ zipFile.members = zipBefore.members
    /\ zipFile.complete

C13_Witness ==
  /\ mOp = [op |-> "comment", arg |-> "new"]
  /\ mRet = "nil"
  /\ zipBefore.comment = "old"
  /\ Len(zipBefore.members) = 3
  /\ zipFile.comment = "new"

\* The rule of the cover selector as the specification words it: the
\* lower-cased name or the lower-cased name without extension begins with
\* "cover" or "front", or the lower-cased name without extension ends with one.
RuleMatches(name) ==
  LET low == ToLower(name)
      stem == TrimSuffix(Base(low), Ext(low))
  IN \/ HasPrefix(low, "cover") \/ HasPrefix(low, "front")
     \/ HasPrefix(stem, "cover") \/ HasPrefix(stem, "front")
     \/ HasSuffix(stem, "cover") \/ HasSuffix(stem, "front")

FirstRuleMatch(images) ==
  images[CHOOSE i \in 1..Len(images) :
           /\ RuleMatches(images[i])
           /\ \A j \in 1..(i - 1) : ~RuleMatches(images[j])]

\* C14: coverName returns the first entry, in list order, that the rule
\* matches, also when the entries have a directory component.
C14_FirstRuleMatch ==
  (fnOp = "coverName" /\ fnOut.called /\ \E i \in 1..Len(fnIn) : RuleMatches(fnIn[i])) =>
    fnOut.val = FirstRuleMatch(fnIn)

\* A list element begins with "cover" or "front", case-insensitively.
BeginsCoverFront(name) ==
  HasPrefix(ToLower(name), "cover") \/ HasPrefix(ToLower(name), "front")

NaturalOrderOfPages == <<"a/001.jpg", "page1.jpg", "page2.jpg", "page10.jpg">>

RankOf(name) ==
  CHOOSE r \in 1..Len(NaturalOrderOfPages) : NaturalOrderOfPages[r] = ToLower(name)

\* C16: when the rule matches no entry, coverName returns the first entry of
\* the list whose lower-cased form is the natural minimum of the lower-cased
\* names; it returns "" only for the empty list.
C16_NaturalFallback ==
  (fnOp = "coverName" /\ fnOut.called) =>
    /\ (fnOut.val = "") <=> (fnIn = <<>>)
    /\ (fnIn # <<>> /\ \A i \in 1..Len(fnIn) : ~RuleMatches(fnIn[i])) =>
         \E i \in 1..Len(fnIn) :
           /\ fnOut.val = fnIn[i]
           /\ \A j \in 1..Len(fnIn) : RankOf(fnIn[i]) <= RankOf(fnIn[j])
           /\ \A j \in 1..(i - 1) : ToLower(fnIn[j]) # ToLower(fnIn[i])
    /\ fnIn = <<"page10.jpg", "page2.jpg", "page1.jpg">> => fnOut.val = "page1.jpg"

C16_Witness ==
  /\ fnOp = "coverName"
  /\ fnIn = <<"page10.jpg", "page2.jpg", "page1.jpg">>
  /\ fnOut.called
  /\ fnOut.val = "page1.jpg"

\* The size filter as the specification words it: threshold a megabytes,
\* size b bytes.
Accepts(a, b) == a = 0 \/ b >= a * MB

\* The directory has an immediate child that is an accepted archive or document.
HasAcceptedChild(d) ==
  \E i \in 1..Len(FSTree) :
    /\ Dir(FSTree[i].path) = d
    /\ ~FSTree[i].dir
    /\ isArchive(FSTree[i].path) \/ isDocument(FSTree[i].path)
    /\ Accepts(fnIn.size, FSTree[i].size)

\* C17: in non-recursive mode Files returns every directory argument none of
\* whose immediate children is an accepted archive or document, whatever
\* arguments precede it (stated for the thresholds whose byte value fits an
\* int64; C18 is about the others).
C17_PlainDirectoryReturned ==
  (/\ fnOp = "Files" /\ fnOut.called /\ fnOut.done /\ ~fnOut.err /\ ~fnIn.recursive
   /\ fnIn.size * MB < TwoTo(WordBits - 1)) =>
    \A k \in 1..Len(fnIn.args) :
      LET d == Abs(fnIn.args[k])
      IN (Stat(d).dir /\ ~HasAcceptedChild(d)) =>
           \E j \in 1..Len(fnOut.val) : fnOut.val[j].Path = d /\ fnOut.val[j].IsDir

\* C18: a file of b bytes passes a threshold of a megabytes exactly when a is
\* 0 or b >= a*1024*1024: Files returns an archive or document argument
\* exactly when it passes, and returns no archive or document that does not.
C18_InclusiveSizeFilter ==
  (fnOp = "Files" /\ fnOut.called /\ fnOut.done /\ ~fnOut.err) =>
    /\ \A k \in 1..Len(fnIn.args) :
         LET f == Stat(Abs(fnIn.args[k]))
         IN (~f.dir /\ (isArchive(f.path) \/ isDocument(f.path))) =>
              ((\E j \in 1..Len(fnOut.val) : fnOut.val[j].Path = f.path)
                 <=> Accepts(fnIn.size, f.size))
    /\ \A j \in 1..Len(fnOut.val) :
         ~fnOut.val[j].IsDir => Accepts(fnIn.size, fnOut.val[j].Size)

\* The cover of the running input: the entry coverName chooses among its images.
CoverOfInput == coverName(imagesFromSlice(contents))

\* The producer loop is at the cover and moves past it in this step.
PassesCover ==
  /\ input.kind \in {"archive", "directory"}
  /\ cur < Len(contents)
  /\ contents[cur + 1] = CoverOfInput
  /\ cur' = cur + 1

\* C19: with the no-cover option, the step in which the loop of an archive or
\* a directory input passes the cover starts no imageConvert task for it and
\* leaves the cover's original bytes in the scratch directory under its base name.
C19_CoverCopiedNotConverted ==
  [][(opts.NoCover /\ PassesCover) =>
       /\ tasks' = tasks
       /\ [dir |-> Workdir, name |-> Base(CoverOfInput),
           content |-> [form |-> "raw", sess |-> CurrFile, idx |-> cur]] \in scratch']_vars

\* The members of an input that are non-image entries: in an archive every
\* entry that is not an image, in a directory the files of an allow-listed
\* extension.
NonImageMembers ==
  {input.members[k] : k \in {j \in 1..Len(input.members) :
     IF input.kind = "archive" THEN ~isImage(input.members[j])
     ELSE isNonImage(input.members[j])}}

\* The scratch directory holds the original bytes of m under its base name.
CopiedUnchanged(m) ==
  \E f \in FilesIn(Workdir) : f.name = Base(m) /\ f.content.form = "raw"

\* C20: when the producer loop of an archive or a directory input has ended,
\* each non-image member of the input is in the scratch directory unchanged
\* if the strip-non-image option is off, and not in it if the option is on.
C20_NonImageCopiedOrStripped ==
  (pc = "wait" /\ input.kind \in {"archive", "directory"}) =>
    \A m \in NonImageMembers : CopiedUnchanged(m) <=> ~opts.NoNonImage

\* The producer loop is at an image that is not grayscale and moves past it in
\* this step.
PassesColourImage ==
  /\ input.kind \in {"archive", "directory"}
  /\ cur < Len(contents)
  /\ isImage(contents[cur + 1])
  /\ ~isGrayScale(contents[cur + 1])
  /\ cur' = cur + 1

\* C21: with the skip-RGB option, the step in which the loop of an archive or
\* a directory input passes an image that is not grayscale leaves the entry's
\* complete original bytes in the scratch directory under its base name.
C21_SkipRGBCopiesOriginal ==
  [][(opts.NoRGB /\ PassesColourImage) =>
       [dir |-> Workdir, name |-> Base(contents[cur + 1]),
        content |-> [form |-> "raw", sess |-> CurrFile, idx |-> cur]] \in scratch']_vars

\* archiveSave is running: from its entry to its return.
Packaging == pc \in {"save", "pack"}

\* C22: while archiveSave runs, no imageConvert task dispatched for the input
\* is left, and no task at all is writing into the scratch directory it reads.
C22_PackAfterAllTasks ==
  Packaging =>
    /\ TasksOf(CurrFile) = {}
    /\ \A t \in tasks : ~(t.st = "running" /\ t.dir = Workdir)

\* C23: the names of two different pages of a document are different, and the
\* name of the earlier page is the smaller one in alphabetical (byte) order.
C23_PageNamesOrdered ==
  (fnOp = "imageConvert" /\ fnOut.called /\ fnIn[1] < fnIn[2]) =>
    /\ fnOut.val[1] # fnOut.val[2]
    /\ StrLess(fnOut.val[1], fnOut.val[2])

\* The number of image files among the immediate children of a directory.
ImageChildren(d) ==
  Cardinality({i \in 1..Len(FSTree) :
                 Dir(FSTree[i].path) = d /\ ~FSTree[i].dir /\ isImage(FSTree[i].path)})

\* The directories nested under a directory.
NestedDirs(d) ==
  {FSTree[i].path : i \in {j \in 1..Len(FSTree) :
                             FSTree[j].dir /\ HasPrefix(FSTree[j].path, d \o "/")}}

\* No archive or document lies under the directory.
ImagesOnly(d) ==
  \A i \in 1..Len(FSTree) :
    HasPrefix(FSTree[i].path, d \o "/") =>
      ~(isArchive(FSTree[i].path) \/ isDocument(FSTree[i].path))

\* C24: Files in recursive mode, called on one directory without archives or
\* documents, returns a directory nested under it exactly if the directory
\* holds more than one image file.
C24_NestedImageDirectories ==
  (/\ fnOp = "Files" /\ fnOut.called /\ fnOut.done /\ ~fnOut.err
   /\ fnIn.recursive
   /\ Len(fnIn.args) = 1
   /\ Stat(Abs(fnIn.args[1])).dir
   /\ ImagesOnly(Abs(fnIn.args[1]))) =>
    \A d \in NestedDirs(Abs(fnIn.args[1])) :
      (\E j \in 1..Len(fnOut.val) : fnOut.val[j].Path = d /\ fnOut.val[j].IsDir)
        <=> ImageChildren(d) > 1

\* n is an integer nearest to p/q, and at least 1.
NearestAtLeastOne(n, p, q) ==
  \/ n >= 1 /\ 2 * n * q - 2 * p <= q /\ 2 * p - 2 * n * q <= q
  \/ n = 1 /\ 2 * p < q

\* C25: when exactly one of Width and Height is configured, the scaled image
\* has the configured dimension, and the other dimension is the one the
\* aspect ratio of the source gives, rounded to the nearest integer and at
\* least 1, in fit mode and in resize mode.
C25_MissingDimensionDerived ==
  (fnOp = "imageTransform" /\ fnOut.called) =>
    IF fnIn.Width > 0
    THEN /\ fnOut.val[1] = fnIn.Width
         /\ NearestAtLeastOne(fnOut.val[2], fnIn.Width * fnIn.srcH, fnIn.srcW)
    ELSE /\ fnOut.val[2] = fnIn.Height
         /\ NearestAtLeastOne(fnOut.val[1], fnIn.Height * fnIn.srcW, fnIn.srcH)

\* C26: without a configured width and height, the long edge of the thumbnail
\* is ThumbnailSize pixels, for landscape and for portrait covers.
C26_ThumbnailLongEdge ==
  (fnOp = "Thumbnail" /\ fnOut.called) =>
    Max(fnOut.val[1], fnOut.val[2]) = ThumbnailSize

\* A convert function is running: in its loop, in eg.Go or in eg.Wait.
InConvertFunction == pc \in {"loop", "go", "wait"}

\* C27: a convert function that is running returns: the producer does not stay
\* in eg.Go on a full pool and eg.Wait returns, whether the tasks succeed,
\* fail or find the context cancelled.
C27_ConvertFunctionReturns == InConvertFunction ~> ~InConvertFunction

\* The producer is in eg.Wait after a task has failed, with a task still running.
C27_Witness ==
  /\ pc = "wait"
  /\ TasksOf(CurrFile) # {}
  /\ egErr[CurrFile] \in {"encode"}

\* C28: the output archive of every input converted so far in the run is in
\* the output directory: no later input of the run has replaced it.
C28_NoOutputOverwritten ==
  (fnOp = "archiveSave" /\ fnOut.called) =>
    \A k \in 1..fnOut.i : \E a \in fnOut.val : a.of = fnIn.files[k]

\* C29: when the output directory is missing at the start and can be created,
\* the program creates it and does not exit before it has listed the inputs.
C29_OutDirCreatedAndUsed ==
  (fnOp = "main" /\ fnOut.called /\ ~fnIn.outDirExists /\ ~fnIn.mkdirFails) =>
    /\ fnOut.outDir
    /\ fnOut.pc = "exited" => fnOut.listed

\* This step is onRemove with an item selected and at least two files listed.
RemovesSelected ==
  /\ fnOp = "gui"
  /\ fnOut'.ev = "remove"
  /\ fnCalls' = fnCalls + 1
  /\ fnOut.value = fnOut.index + 1
  /\ Len(fnOut.files) >= 2

\* C30: onRemove with an item selected and at least two files listed leaves
\* the slice files without the selected file and one element shorter, as long
\* as the list.
C30_RemoveShrinksFiles ==
  [][RemovesSelected =>
       /\ Len(fnOut'.files) = Len(fnOut.files) - 1
       /\ \A k \in 1..Len(fnOut'.files) : fnOut'.files[k] # fnOut.files[fnOut.index + 1]
       /\ Len(fnOut'.files) = Len(fnOut'.items)]_vars

====
